---- MODULE Spec2Model ----
(***************************************************************************)
(* A model of the extended serial manager of audio-twiddles                *)
(* (extended-serial-manager/src/ExtendedSerialManager.h): the byte framer  *)
(* processByte, the dispatcher processExtendedCommand and the command      *)
(* handlers, over a table of knobs whose cells hold binary32 values.       *)
(*                                                                         *)
(* Characters are their ASCII codes.  Offsets into the line buffer are     *)
(* counted from 0, as the pointers of the source are.                      *)
(***************************************************************************)
EXTENDS Integers, Sequences, FiniteSets, TLC

----------------------------------------------------------------------------
(* The protocol's characters *)

TYMPAN_ESM_BASIC_MODE_COMMAND == 92
TYMPAN_ESM_HELP_COMMAND       == 63
TYMPAN_ESM_GET_LAYOUT_COMMAND == 35
TYMPAN_ESM_RUN_COMMAND        == 33
TYMPAN_ESM_ACTIVATE_COMMAND   == 94
TYMPAN_ESM_QUERY_COMMAND      == 38
TYMPAN_ESM_INCREMENT_COMMAND  == 43
TYMPAN_ESM_DECREMENT_COMMAND  == 45
TYMPAN_ESM_SET_COMMAND        == 42
TYMPAN_ESM_APPLY_COMMAND      == 61
TYMPAN_ESM_END_OF_MESSAGE     == 59

CH_NUL   == 0
CH_SLASH == 47
CH_h     == 104
CH_J     == 74
CH_d     == 100
CH_0     == 48
CH_9     == 57
CH_A     == 65
CH_a     == 97
CH_COMMA == 44
CH_DOT   == 46
CH_SPACE == 32

\* char buffer[256]
BufferSize == 256

\* sizeof(CONFIGURABLE) on the 32-bit ARM target: three pointers and two floats
SizeofConfigurable == 20

isDigit(c) == c >= CH_0 /\ c <= CH_9

\* c & 0x20
Bit0x20(c) == (c \div 32) % 2 = 1

\* variant: the byte taken as the index, without the mask
Mask7_identity(c) == c

\* c & 0x7f
Mask7(c) == c % 128

----------------------------------------------------------------------------
(* binary32 arithmetic.  A value is (-1)^s * m * 2^e with m = 0 or          *)
(* 2^23 <= m < 2^24; every operation rounds to nearest, ties to even.      *)
(* Infinities, NaN, subnormals and the sign of zero are not represented:   *)
(* the magnitudes of the model stay far inside the normal range.           *)

Pow2(n) == 2 ^ n

RECURSIVE BitLen(_)
BitLen(w) == IF w = 0 THEN 0 ELSE 1 + BitLen(w \div 2)

F32Zero == [s |-> 0, m |-> 0, e |-> 0]

\* w * 2^e (plus a non-zero fraction of w's last place when st = 1), rounded
F32Round(s, w, e, st) ==
  IF w = 0 THEN F32Zero
  ELSE LET n  == BitLen(w)
           k  == n - 27
           w2 == IF k > 0 THEN w \div Pow2(k) ELSE w * Pow2(0 - k)
           s2 == IF k > 0 /\ (w % Pow2(k)) # 0 THEN 1 ELSE st
           q  == w2 \div 8
           r  == w2 % 8
           up == r > 4 \/ (r = 4 /\ (s2 = 1 \/ q % 2 = 1))
           q2 == IF up THEN q + 1 ELSE q
       IN IF q2 = Pow2(24)
          THEN [s |-> s, m |-> Pow2(23), e |-> e + k + 4]
          ELSE [s |-> s, m |-> q2, e |-> e + k + 3]

F32MagLt(a, b) ==
  IF a.m = 0 THEN b.m # 0
  ELSE IF b.m = 0 THEN FALSE
  ELSE a.e < b.e \/ (a.e = b.e /\ a.m < b.m)

\* a < b
F32Lt(a, b) ==
  IF a.s = 0 /\ b.s = 0 THEN F32MagLt(a, b)
  ELSE IF a.s = 1 /\ b.s = 1 THEN F32MagLt(b, a)
  ELSE a.s = 1 /\ (a.m # 0 \/ b.m # 0)

\* a > b
F32Gt(a, b) == F32Lt(b, a)

\* a <= b
F32Le(a, b) == ~F32Lt(b, a)

F32Neg(a) == IF a.m = 0 THEN a ELSE [a EXCEPT !.s = 1 - a.s]

F32Add(a, b) ==
  IF a.m = 0 THEN b
  ELSE IF b.m = 0 THEN a
  ELSE LET big   == IF F32MagLt(a, b) THEN b ELSE a
           small == IF F32MagLt(a, b) THEN a ELSE b
           d     == big.e - small.e
           wb    == big.m * 8
           ws    == small.m * 8
           sh    == IF d >= 27 THEN 0 ELSE ws \div Pow2(d)
           st    == IF d >= 27 THEN 1 ELSE IF (ws % Pow2(d)) # 0 THEN 1 ELSE 0
       IN IF big.s = small.s
          THEN F32Round(big.s, wb + sh, big.e - 3, st)
          ELSE F32Round(big.s, wb - sh - st, big.e - 3, st)

F32Sub(a, b) == F32Add(a, F32Neg(b))

F32Mul(a, b) ==
  IF a.m = 0 \/ b.m = 0 THEN F32Zero
  ELSE LET a1  == a.m \div 4096
           a0  == a.m % 4096
           b1  == b.m \div 4096
           b0  == b.m % 4096
           mid == a1 * b0 + a0 * b1
           low == (mid % 4096) * 4096 + a0 * b0
           hi  == a1 * b1 + (mid \div 4096) + (low \div Pow2(24))
           rem == low % Pow2(24)
           \* the product is hi * 2^24 + rem
           w   == hi * 16 + (rem \div Pow2(20))
           st  == IF (rem % Pow2(20)) # 0 THEN 1 ELSE 0
       IN F32Round((a.s + b.s) % 2, w, a.e + b.e + 20, st)

RECURSIVE F32DivBits(_, _, _, _)
F32DivBits(q, rem, d, k) ==
  IF k = 0 THEN <<q, rem>>
  ELSE LET r2 == 2 * rem
       IN IF r2 >= d THEN F32DivBits(2 * q + 1, r2 - d, d, k - 1)
          ELSE F32DivBits(2 * q, r2, d, k - 1)

F32Div(a, b) ==
  IF a.m = 0 THEN F32Zero
  ELSE LET qr == F32DivBits(a.m \div b.m, a.m % b.m, b.m, 27)
       IN F32Round((a.s + b.s) % 2, qr[1], a.e - b.e - 27,
                   IF qr[2] # 0 THEN 1 ELSE 0)

\* (float) n
F32FromInt(n) ==
  IF n < 0 THEN F32Round(1, 0 - n, 0, 0) ELSE F32Round(0, n, 0, 0)

\* the decimal literal n / 10^k, as the compiler and strtof round it
F32Dec(n, k) == F32Div(F32FromInt(n), F32FromInt(10 ^ k))

\* the literals 0.05f and 100.0f of the handlers
F32_0_05 == F32Dec(5, 2)
F32_100  == F32FromInt(100)

----------------------------------------------------------------------------
(* Configuration: what the constructor is given *)

\* rows of a knob table: { name, value, unit, min, max } without the texts;
\* the ranges are those of the sketch's "tk" and "attack time" knobs
options ==
  << [min |-> F32FromInt(0), max |-> F32FromInt(100)],
     [min |-> F32FromInt(1), max |-> F32FromInt(100)] >>

\* the sketch's COMMAND commands[] = { { 'd', "do a thing", runCommand } }
commands == << [character |-> CH_d] >>

\* <<channelCount, knobCount>> of the interpreters constructed
Configs == { <<1, 1>>, <<2, 1>>, <<1, 2>>, <<2, 2>> }

\* start values of the cells: cell idx holds base + 5 * idx
InitBase == { -10, 50, 95, 105 }

\* lines a run may dispatch
MaxLines == 2

\* bytes a line may run past the end of the buffer
MaxOverrun == 2

VARIABLES
  channelCount,  \* this->channelCount
  knobCount,     \* this->knobCount
  value,         \* value[idx]: the float that knobs[idx].value points to
  mode,          \* MODE mode
  buffer,        \* char buffer[256]: the bytes up to the highest offset
                 \*   written; the rest is still zero (a static object)
  bufferPtr,     \* bufferPtr - buffer
  events,        \* what the latest call printed and called, in order
  ub,            \* a handler has read or written outside the knob table
                 \*   or read outside the buffer
  lastStore,     \* the offset the latest call stored a byte at, or -1
  overrun,       \* some store went outside the buffer
  lastByte,      \* the byte the latest call was given, or -1
  called,        \* the branch the latest call took: "none", "basic",
                 \*   "append" or "end"
  last,          \* of the latest line handed to the dispatcher: the line
                 \*   and the cells before it was dispatched (line, before),
                 \*   and the same of the line dispatched before it (pline,
                 \*   pbefore)
  sent,          \* the bytes the host has sent since its last ';'
  nlines,        \* lines dispatched so far
  rx,            \* rx[t + 1]: the bytes received on transport t (Serial,
                 \*   Serial1) that loop() has not read yet
  port,          \* the transport loop() is reading
  origin,        \* origin[i + 1]: the transport whose byte, or whose
                 \*   terminator, was stored at offset i of the buffer
  arrived        \* bytes received so far on both transports

vars == << channelCount, knobCount, value, mode, buffer, bufferPtr, events,
           ub, lastStore, overrun, lastByte, called, last, sent, nlines,
           rx, port, origin, arrived >>

\* the state of the two transports of the sketch
transportVars == << rx, port, origin, arrived >>

KnobTotal == channelCount * knobCount

InTable(idx) == idx >= 0 /\ idx < KnobTotal

\* CONFIGURABLE knobs[]: every channel repeats the rows of options
knobs(idx) == options[(idx % knobCount) + 1]

\* the constructor's loop: commandLut[commands[ii].character & 0x7f] = execute
commandLut(i) ==
  \E ii \in 1..Len(commands) : Mask7(commands[ii].character) = i

----------------------------------------------------------------------------
(* What a call prints and which callbacks it invokes *)

Ev(t, a, b, v) == [t |-> t, a |-> a, b |-> b, v |-> v]

\* myTympan.print(knobIdentifier); print(channel); print("="); print(value)
EvValue(id, ch, v) == Ev("value", id, ch, v)
\* a line for humans ("Msg: ...", "Unable to parse command")
EvMsg(what)        == Ev("msg", what, 0, F32Zero)
\* myTympan.println("ACK=1") / println("ACK=0")
EvAck(ok)          == Ev("ack", IF ok THEN 1 ELSE 0, 0, F32Zero)
\* apply()
EvApply            == Ev("apply", 0, 0, F32Zero)
\* activate(channel, knob)
EvActivate(ch, k)  == Ev("activate", ch, k, F32Zero)
\* commandLut[c & 0x7f](c), and what it returned
EvExec(c, ok)      == Ev("exec", c, IF ok THEN 1 ELSE 0, F32Zero)

----------------------------------------------------------------------------
(* The line buffer *)

\* buf[i], for an offset inside the array
Peek(buf, i) == IF i < Len(buf) THEN buf[i + 1] ELSE CH_NUL

\* buf[i] = c, for an offset inside the array
Poke(buf, i, c) ==
  IF i < Len(buf) THEN [buf EXCEPT ![i + 1] = c]
  ELSE buf \o [j \in 1..(i - Len(buf)) |-> CH_NUL] \o << c >>

\* the C string at offset i
CStr(buf, i) ==
  LET zeros == { j \in i..(Len(buf) - 1) : buf[j + 1] = CH_NUL }
      stop  == IF zeros = {} THEN Len(buf)
               ELSE CHOOSE j \in zeros : \A k \in zeros : j <= k
  IN  SubSeq(buf, i + 1, stop)

\* the same memory, written without its trailing zero bytes
RECURSIVE Canon(_)
Canon(buf) ==
  IF Len(buf) > 0 /\ buf[Len(buf)] = CH_NUL
  THEN Canon(SubSeq(buf, 1, Len(buf) - 1))
  ELSE buf

----------------------------------------------------------------------------
(* Parsing *)

\* while (isDigit(*ptr)) { acc = acc * 10 + (*ptr - '0'); ptr++; }
\* gives << ptr, acc >>
RECURSIVE ParseInt(_, _, _)
ParseInt(buf, ptr, acc) ==
  IF isDigit(Peek(buf, ptr))
  THEN ParseInt(buf, ptr + 1, acc * 10 + (Peek(buf, ptr) - CH_0))
  ELSE << ptr, acc >>

\* (c & 0x20) ? c - 'a' : c - 'A'
KnobIndexOf(c) == IF Bit0x20(c) THEN c - CH_a ELSE c - CH_A

parseOptions(buf, options_) ==
  LET ch  == ParseInt(buf, options_, 0)
      ptr == ch[1]
      \* the pointer is not advanced past the knob letter before the value
      \* loop, which therefore starts at the letter itself
      val == ParseInt(buf, ptr, 0)
  IN [channel |-> ch[2], knob |-> KnobIndexOf(Peek(buf, ptr)), value |-> val[2]]

isSpace(c) == c = CH_SPACE \/ (c >= 9 /\ c <= 13)

RECURSIVE SkipSpace(_, _)
SkipSpace(buf, p) == IF isSpace(Peek(buf, p)) THEN SkipSpace(buf, p + 1) ELSE p

\* the digits at p: << end, digits read as one integer, how many >>
RECURSIVE ScanDigits(_, _, _, _)
ScanDigits(buf, p, acc, cnt) ==
  IF isDigit(Peek(buf, p))
  THEN ScanDigits(buf, p + 1, acc * 10 + (Peek(buf, p) - CH_0), cnt + 1)
  ELSE << p, acc, cnt >>

\* strtof(buf + p, &end) of the C library, for decimal text without an
\* exponent: << value, end >>; no conversion gives << 0, p >>.  The host
\* sends no exponent, "inf" or "nan": every cell holds a finite number.
strtof(buf, p) ==
  LET p0   == SkipSpace(buf, p)
      neg  == Peek(buf, p0) = TYMPAN_ESM_DECREMENT_COMMAND
      p1   == IF neg \/ Peek(buf, p0) = TYMPAN_ESM_INCREMENT_COMMAND
              THEN p0 + 1 ELSE p0
      ip   == ScanDigits(buf, p1, 0, 0)
      dot  == Peek(buf, ip[1]) = CH_DOT
      fp   == IF dot THEN ScanDigits(buf, ip[1] + 1, ip[2], 0)
              ELSE << ip[1], ip[2], 0 >>
      some == ip[3] + fp[3] > 0
      end  == IF dot /\ (ip[3] > 0 \/ fp[3] > 0) THEN fp[1] ELSE ip[1]
      mag  == F32Dec(fp[2], fp[3])
  IN IF some THEN << IF neg THEN F32Neg(mag) ELSE mag, end >>
     ELSE << F32Zero, p >>

----------------------------------------------------------------------------
(* The knob table *)

\* variant: &knobs[knob], the channel forgotten
getKnob_noChannel(channel, knob) == knob

\* &knobs[channel * knobCount + knob], as an index into knobs
getKnob(channel, knob) == channel * knobCount + knob

\* What the pointer &knobs[idx] denotes.  Inside the table it is the row
\* and its cell.  Outside it the row is whatever lies there: some range,
\* and a value pointer that may hit any cell of the table (cell >= 0) or
\* none (cell = -1, where the float wv lies).
KnobRefs(idx) ==
  IF InTable(idx)
  THEN { [idx |-> idx, min |-> knobs(idx).min, max |-> knobs(idx).max,
          cell |-> idx, wv |-> F32Zero] }
  ELSE { [idx |-> idx, min |-> options[1].min, max |-> options[1].max,
          cell |-> c, wv |-> w] :
           c \in (0..(KnobTotal - 1)) \cup {-1},
           w \in {F32Zero, options[1].max} }

\* *knob->value
CellValue(val, k) == IF k.cell >= 0 THEN val[k.cell] ELSE k.wv

\* *knob->value = v
CellStore(val, k, v) ==
  IF k.cell >= 0 THEN [val EXCEPT ![k.cell] = v] ELSE val

\* 'A' + knob
getKnobIdentifier(knob) == CH_A + knob

\* (knob - knobs) / sizeof(CONFIGURABLE), with knob - knobs = idx
printedChannel(idx) == idx \div SizeofConfigurable

\* getKnobIdentifier((knob - knobs) % sizeof(CONFIGURABLE))
printedIdentifier(idx) == getKnobIdentifier(idx % SizeofConfigurable)

\* printValue(knob): the value line
printValue(idx, v) ==
  << EvValue(printedIdentifier(idx), printedChannel(idx), v) >>

\* printValue(knob, verb, oldVal): the trace for humans, then the value line
printValueVerb(idx, v) ==
  << EvMsg(0), EvValue(printedIdentifier(idx), printedChannel(idx), v) >>

----------------------------------------------------------------------------
(* The handlers.  Each is the effect of one call on value, mode, events    *)
(* and ub; buf is the line buffer the call reads, options_ the offset of   *)
(* its argument in it.                                                     *)

\* variant: ACK=1 printed in either mode
ackUnconditional == << EvAck(TRUE) >>

\* ackIfExtended()
ackIfExtended == IF mode = "Extended" THEN << EvAck(TRUE) >> ELSE << >>

\* variant: the acknowledgement printed in either mode
ackInEitherMode(success) == << EvAck(success) >>

\* ackIfExtended(bool success)
ackIfExtendedOk(success) ==
  IF mode = "Extended" THEN << EvAck(success) >> ELSE << >>

\* the println and printf calls of handleHelpCommand
helpLines ==
  [i \in 1..(16 + knobCount + Len(commands)) |-> EvMsg(0)]

handleHelpCommand ==
  /\ events' = helpLines
  /\ UNCHANGED << value, mode, ub >>

handleGetLayoutCommand ==
  /\ events' = << >>
  /\ UNCHANGED << value, mode, ub >>

\* variant: printing the help also leaves Extended mode
handleRunCommand_helpToBasic(c) ==
  IF c = CH_SLASH
  THEN /\ mode' = "Extended"
       /\ events' = << EvAck(TRUE) >>
       /\ UNCHANGED << value, ub >>
  ELSE IF c = TYMPAN_ESM_BASIC_MODE_COMMAND
  THEN /\ mode' = "Basic"
       /\ events' = << EvAck(TRUE) >>
       /\ UNCHANGED << value, ub >>
  ELSE IF c = CH_h
  THEN /\ mode' = "Basic"
       /\ events' = helpLines \o ackIfExtended
       /\ UNCHANGED << value, ub >>
  ELSE IF c = CH_J
  THEN /\ events' = ackIfExtended
       /\ UNCHANGED << value, mode, ub >>
  ELSE /\ IF commandLut(Mask7(c))
          THEN \E ok \in BOOLEAN :
                 events' = << EvExec(c, ok) >> \o ackIfExtendedOk(ok)
          ELSE events' = ackIfExtendedOk(FALSE)
       /\ UNCHANGED << value, mode, ub >>

handleRunCommand(c) ==
  IF c = CH_SLASH
  THEN /\ mode' = "Extended"
       /\ events' = << EvAck(TRUE) >>
       /\ UNCHANGED << value, ub >>
  ELSE IF c = TYMPAN_ESM_BASIC_MODE_COMMAND
  THEN /\ mode' = "Basic"
       /\ events' = << EvAck(TRUE) >>
       /\ UNCHANGED << value, ub >>
  ELSE IF c = CH_h
  THEN /\ events' = helpLines \o ackIfExtended
       /\ UNCHANGED << value, mode, ub >>
  ELSE IF c = CH_J
  THEN /\ events' = ackIfExtended
       /\ UNCHANGED << value, mode, ub >>
  ELSE /\ IF commandLut(Mask7(c))
          THEN \E ok \in BOOLEAN :
                 events' = << EvExec(c, ok) >> \o ackIfExtendedOk(ok)
          ELSE events' = ackIfExtendedOk(FALSE)
       /\ UNCHANGED << value, mode, ub >>

handleActivateCommand(buf, options_) ==
  LET opts == parseOptions(buf, options_)
      idx  == getKnob(opts.channel, opts.knob)
  IN /\ events' = << EvMsg(0), EvActivate(opts.channel, opts.knob) >>
     /\ ub' = (ub \/ ~InTable(idx))
     /\ UNCHANGED << value, mode >>

\* variant: the inner loop with its bound one short, jj < knobCount - 1
RECURSIVE queryKnobs_stopsEarly(_, _, _)
queryKnobs_stopsEarly(val, ii, jj) ==
  IF jj >= knobCount - 1 THEN << >>
  ELSE LET idx == ii * knobCount + jj
       IN << EvMsg(0) >> \o printValue(idx, val[idx])
            \o queryKnobs_stopsEarly(val, ii, jj + 1)

\* the inner loop of the query-all branch, from knob jj of channel ii on
RECURSIVE queryKnobs(_, _, _)
queryKnobs(val, ii, jj) ==
  IF jj >= knobCount THEN << >>
  ELSE LET idx == getKnob(ii, jj)
       IN << EvMsg(0) >> \o printValue(idx, val[idx]) \o queryKnobs(val, ii, jj + 1)

\* the outer loop of the query-all branch, from channel ii on
RECURSIVE queryChannels(_, _)
queryChannels(val, ii) ==
  IF ii >= channelCount THEN << >>
  ELSE << EvMsg(0) >> \o queryKnobs(val, ii, 0) \o queryChannels(val, ii + 1)

\* handleQueryCommand("&"): what it prints when the cells hold val
queryAll(val) == << EvMsg(0) >> \o queryChannels(val, 0)

handleQueryCommand(buf, options_) ==
  IF Peek(buf, options_) = TYMPAN_ESM_QUERY_COMMAND
  THEN /\ events' = queryAll(value)
       /\ UNCHANGED << value, mode, ub >>
  ELSE LET opts == parseOptions(buf, options_)
           idx  == getKnob(opts.channel, opts.knob)
       IN \E k \in KnobRefs(idx) :
            /\ events' = printValue(idx, CellValue(value, k))
            /\ ub' = (ub \/ ~InTable(idx))
            /\ UNCHANGED << value, mode >>

\* oldVal + (knob->max - knob->min) * 0.05f
incrementTarget(k, oldVal) ==
  F32Add(oldVal, F32Mul(F32Sub(k.max, k.min), F32_0_05))

\* variant: the sum stored as it is
incrementStored_noClamp(k, newVal) == newVal

\* newVal > knob->max ? knob->max : newVal
incrementStored(k, newVal) == IF F32Gt(newVal, k.max) THEN k.max ELSE newVal

handleIncrementCommand(buf, options_) ==
  LET opts == parseOptions(buf, options_)
      idx  == getKnob(opts.channel, opts.knob)
  IN \E k \in KnobRefs(idx) :
       LET oldVal == CellValue(value, k)
           newVal == incrementTarget(k, oldVal)
           stored == incrementStored(k, newVal)
       IN /\ value' = CellStore(value, k, stored)
          /\ events' = printValueVerb(idx, stored) \o << EvApply >>
          /\ ub' = (ub \/ ~InTable(idx))
          /\ UNCHANGED mode

\* variant: the step taken from max alone, oldVal - knob->max * 0.05f
decrementTarget_stepOfMax(k, oldVal) ==
  F32Sub(oldVal, F32Mul(k.max, F32_0_05))

\* oldVal - (knob->max - knob->min) * 0.05f
decrementTarget(k, oldVal) ==
  F32Sub(oldVal, F32Mul(F32Sub(k.max, k.min), F32_0_05))

\* newVal < knob->min ? knob->min : newVal
decrementStored_noClamp(k, newVal) == newVal

decrementStored(k, newVal) == IF F32Lt(newVal, k.min) THEN k.min ELSE newVal

\* variant: the closing apply() left out
handleDecrementCommand_noApply(buf, options_) ==
  LET opts == parseOptions(buf, options_)
      idx  == getKnob(opts.channel, opts.knob)
  IN \E k \in KnobRefs(idx) :
       LET oldVal == CellValue(value, k)
           newVal == decrementTarget(k, oldVal)
           stored == decrementStored(k, newVal)
       IN /\ value' = CellStore(value, k, stored)
          /\ events' = printValueVerb(idx, stored)
          /\ ub' = (ub \/ ~InTable(idx))
          /\ UNCHANGED mode

handleDecrementCommand(buf, options_) ==
  LET opts == parseOptions(buf, options_)
      idx  == getKnob(opts.channel, opts.knob)
  IN \E k \in KnobRefs(idx) :
       LET oldVal == CellValue(value, k)
           newVal == decrementTarget(k, oldVal)
           stored == decrementStored(k, newVal)
       IN /\ value' = CellStore(value, k, stored)
          /\ events' = printValueVerb(idx, stored) \o << EvApply >>
          /\ ub' = (ub \/ ~InTable(idx))
          /\ UNCHANGED mode

\* newVal < knob->min ? knob->min : newVal > knob->max ? knob->max : newVal
setStored(k, newVal) ==
  IF F32Lt(newVal, k.min) THEN k.min
  ELSE IF F32Gt(newVal, k.max) THEN k.max ELSE newVal

\* knob->min + (knob->max - knob->min) * (pct / 100.0f)
setTarget(k, pct) ==
  F32Add(k.min, F32Mul(F32Sub(k.max, k.min), F32Div(F32FromInt(pct), F32_100)))

handleSetCommand(buf, options_) ==
  LET opts == parseOptions(buf, options_)
      idx  == getKnob(opts.channel, opts.knob)
  IN \E k \in KnobRefs(idx) :
       LET stored == setStored(k, setTarget(k, opts.value))
       IN /\ value' = CellStore(value, k, stored)
          /\ events' = printValueVerb(idx, stored) \o << EvApply >>
          /\ ub' = (ub \/ ~InTable(idx))
          /\ UNCHANGED mode

\* while (*nextPtr != ',' && *nextPtr != '\0') nextPtr++;
RECURSIVE scanToSeparator(_, _)
scanToSeparator(buf, nextPtr) ==
  IF nextPtr >= BufferSize THEN nextPtr
  ELSE IF Peek(buf, nextPtr) = CH_COMMA \/ Peek(buf, nextPtr) = CH_NUL
  THEN nextPtr
  ELSE scanToSeparator(buf, nextPtr + 1)

\* variant: the parsed float clamped to the range of the row, as a set
\* command clamps
RECURSIVE applyLoop_clamped(_, _, _, _, _, _, _, _)
applyLoop_clamped(buf, val, ptr, nextPtr, idx, stride, n, bad) ==
  IF n = 0 THEN [value |-> val, ub |-> bad]
  ELSE LET scan == scanToSeparator(buf, nextPtr)
           f    == strtof(buf, ptr)
           next == f[2] + 1
       IN applyLoop_clamped(buf,
                    IF InTable(idx)
                    THEN [val EXCEPT ![idx] = setStored(knobs(idx), f[1])]
                    ELSE val,
                    next, next, idx + stride, stride, n - 1,
                    bad \/ scan >= BufferSize \/ ptr >= BufferSize
                        \/ f[2] >= BufferSize \/ ~InTable(idx))

\* variant: the cells taken one after the other, whatever the stride
RECURSIVE applyLoop_adjacent(_, _, _, _, _, _, _, _)
applyLoop_adjacent(buf, val, ptr, nextPtr, idx, stride, n, bad) ==
  IF n = 0 THEN [value |-> val, ub |-> bad]
  ELSE LET scan == scanToSeparator(buf, nextPtr)
           f    == strtof(buf, ptr)
           next == f[2] + 1
       IN applyLoop_adjacent(buf,
                    IF InTable(idx) THEN [val EXCEPT ![idx] = f[1]] ELSE val,
                    next, next, idx + 1, stride, n - 1,
                    bad \/ scan >= BufferSize \/ ptr >= BufferSize
                        \/ f[2] >= BufferSize \/ ~InTable(idx))

\* The loops of handleApplyCommand: n more cells from index idx on, stride
\* apart, each taking strtof(ptr, &nextPtr) and then ptr = ++nextPtr.
\* Gives the cells and whether a read left the buffer or a store the table.
RECURSIVE applyLoop(_, _, _, _, _, _, _, _)
applyLoop(buf, val, ptr, nextPtr, idx, stride, n, bad) ==
  IF n = 0 THEN [value |-> val, ub |-> bad]
  ELSE LET scan == scanToSeparator(buf, nextPtr)
           f    == strtof(buf, ptr)
           next == f[2] + 1
       IN applyLoop(buf,
                    IF InTable(idx) THEN [val EXCEPT ![idx] = f[1]] ELSE val,
                    next, next, idx + stride, stride, n - 1,
                    bad \/ scan >= BufferSize \/ ptr >= BufferSize
                        \/ f[2] >= BufferSize \/ ~InTable(idx))

handleApplyCommand(buf, options_) ==
  LET ch   == ParseInt(buf, options_, 0)
      knob == Peek(buf, ch[1])
      ptr  == ch[1] + 1
      r    == IF knob = TYMPAN_ESM_APPLY_COMMAND
              THEN applyLoop(buf, value, ptr, ptr, getKnob(ch[2], 0),
                             1, knobCount, FALSE)
              ELSE applyLoop(buf, value, ptr + 1, ptr,
                             getKnob(0, KnobIndexOf(knob)),
                             knobCount, channelCount, FALSE)
  IN /\ value' = r.value
     /\ events' = queryAll(r.value) \o << EvApply >>
     /\ ub' = (ub \/ r.ub)
     /\ UNCHANGED mode

\* variant: the mode switched by way of handleRunCommand, which
\* acknowledges it
switchToBasic_acknowledged ==
  /\ mode' = "Basic"
  /\ events' = << EvAck(TRUE) >>
  /\ UNCHANGED << value, ub >>

\* case TYMPAN_ESM_BASIC_MODE_COMMAND: mode = Basic; break;
switchToBasic ==
  /\ mode' = "Basic"
  /\ events' = << >>
  /\ UNCHANGED << value, ub >>

\* variant: the default case reached through the case before it, which
\* sets the mode
unableToParse_throughBasic ==
  /\ mode' = "Basic"
  /\ events' = << EvMsg(0), EvAck(FALSE) >>
  /\ UNCHANGED << value, ub >>

\* myTympan.println("Unable to parse command"); myTympan.println("ACK=0")
unableToParse ==
  /\ events' = << EvMsg(0), EvAck(FALSE) >>
  /\ UNCHANGED << value, mode, ub >>

processExtendedCommand(buf) ==
  LET tag == Peek(buf, 0)
  IN CASE tag = TYMPAN_ESM_BASIC_MODE_COMMAND -> switchToBasic
       [] tag = TYMPAN_ESM_HELP_COMMAND       -> handleHelpCommand
       [] tag = TYMPAN_ESM_GET_LAYOUT_COMMAND -> handleGetLayoutCommand
       [] tag = TYMPAN_ESM_RUN_COMMAND        -> handleRunCommand(Peek(buf, 1))
       [] tag = TYMPAN_ESM_ACTIVATE_COMMAND   -> handleActivateCommand(buf, 1)
       [] tag = TYMPAN_ESM_QUERY_COMMAND      -> handleQueryCommand(buf, 1)
       [] tag = TYMPAN_ESM_INCREMENT_COMMAND  -> handleIncrementCommand(buf, 1)
       [] tag = TYMPAN_ESM_DECREMENT_COMMAND  -> handleDecrementCommand(buf, 1)
       [] tag = TYMPAN_ESM_SET_COMMAND        -> handleSetCommand(buf, 1)
       [] tag = TYMPAN_ESM_APPLY_COMMAND      -> handleApplyCommand(buf, 1)
       [] OTHER                               -> unableToParse

----------------------------------------------------------------------------
(* The framer: processByte, one action for each of its three branches *)

\* where bufferPtr may point after a store outside the array: the store
\* lands in the members that follow the buffer, of which bufferPtr is the
\* first, or in the padding before it
pointerAfterOverrun(next) == { next, 0 }

\* mode == Basic: handleRunCommand(&c)
processByteBasic(c) ==
  /\ mode = "Basic"
  /\ handleRunCommand(c)
  /\ lastStore' = -1
  /\ lastByte' = c
  /\ called' = "basic"
  /\ UNCHANGED << buffer, bufferPtr, overrun, last >>

\* variant: the line is not terminated, what the buffer held past the
\* cursor stays part of it
processByteEnd_noTerminator(c) ==
  /\ mode = "Extended"
  /\ c = TYMPAN_ESM_END_OF_MESSAGE
  /\ lastStore' = -1
  /\ bufferPtr' = 0
  /\ UNCHANGED << buffer, overrun >>
  /\ lastByte' = c
  /\ called' = "end"
  /\ last' = [line |-> CStr(buffer, 0), before |-> value,
              pline |-> last.line, pbefore |-> last.before]
  /\ processExtendedCommand(buffer)

\* variant: the cursor left where the terminator was stored
processByteEnd_cursorKept(c) ==
  /\ mode = "Extended"
  /\ c = TYMPAN_ESM_END_OF_MESSAGE
  /\ lastStore' = bufferPtr
  /\ bufferPtr' = bufferPtr
  /\ IF bufferPtr < BufferSize
     THEN /\ buffer' = Canon(Poke(buffer, bufferPtr, CH_NUL))
          /\ UNCHANGED overrun
     ELSE /\ overrun' = TRUE
          /\ UNCHANGED buffer
  /\ lastByte' = c
  /\ called' = "end"
  /\ last' = [line |-> CStr(buffer', 0), before |-> value,
              pline |-> last.line, pbefore |-> last.before]
  /\ processExtendedCommand(buffer')

\* c == ';': *bufferPtr = '\0'; bufferPtr = buffer; processExtendedCommand
processByteEnd(c) ==
  /\ mode = "Extended"
  /\ c = TYMPAN_ESM_END_OF_MESSAGE
  /\ lastStore' = bufferPtr
  /\ bufferPtr' = 0
  /\ IF bufferPtr < BufferSize
     THEN /\ buffer' = Canon(Poke(buffer, bufferPtr, CH_NUL))
          /\ UNCHANGED overrun
     ELSE /\ overrun' = TRUE
          /\ UNCHANGED buffer
  /\ lastByte' = c
  /\ called' = "end"
  /\ last' = [line |-> CStr(buffer', 0), before |-> value,
              pline |-> last.line, pbefore |-> last.before]
  /\ processExtendedCommand(buffer')

\* otherwise: *bufferPtr++ = c
processByteAppend(c) ==
  /\ mode = "Extended"
  /\ c # TYMPAN_ESM_END_OF_MESSAGE
  /\ lastStore' = bufferPtr
  /\ IF bufferPtr < BufferSize
     THEN /\ buffer' = Canon(Poke(buffer, bufferPtr, c))
          /\ bufferPtr' = bufferPtr + 1
          /\ UNCHANGED overrun
     ELSE /\ overrun' = TRUE
          /\ bufferPtr' \in pointerAfterOverrun(bufferPtr + 1)
          /\ UNCHANGED buffer
  /\ lastByte' = c
  /\ called' = "append"
  /\ events' = << >>
  /\ UNCHANGED << value, mode, ub, last >>

----------------------------------------------------------------------------
(* The host: the lines and bytes it sends *)

\* the decimal digits of n
RECURSIVE Dec(_)
Dec(n) == IF n < 10 THEN << CH_0 + n >> ELSE Dec(n \div 10) \o << CH_0 + (n % 10) >>

\* the floats of the apply command: 150, -10, 0.1
ApplyValues ==
  << Dec(150), << TYMPAN_ESM_DECREMENT_COMMAND >> \o Dec(10),
     Dec(0) \o << CH_DOT >> \o Dec(1) >>

\* n of them, from the r-th on, with commas between
RECURSIVE ApplyList(_, _)
ApplyList(r, n) ==
  IF n = 1 THEN ApplyValues[(r % Len(ApplyValues)) + 1]
  ELSE ApplyValues[(r % Len(ApplyValues)) + 1] \o << CH_COMMA >> \o ApplyList(r + 1, n - 1)

\* <tag><channel><knob>
KnobLine(tag, c, k) == << tag >> \o Dec(c) \o << CH_A + k >>

\* The lines about knob values sent to an interpreter of cc channels of kc
\* knobs: the first and the last knob of the table are incremented,
\* decremented, set and queried, with the channel, without it and in lower
\* case; the last channel and the last letter are the slices applied.
KnobVocabulary(cc, kc) ==
  { KnobLine(TYMPAN_ESM_INCREMENT_COMMAND, 0, 0),
    KnobLine(TYMPAN_ESM_INCREMENT_COMMAND, cc - 1, kc - 1),
    << TYMPAN_ESM_INCREMENT_COMMAND, CH_a + (kc - 1) >>,
    KnobLine(TYMPAN_ESM_DECREMENT_COMMAND, 0, 0),
    KnobLine(TYMPAN_ESM_DECREMENT_COMMAND, cc - 1, kc - 1),
    KnobLine(TYMPAN_ESM_SET_COMMAND, 0, 0) \o Dec(50),
    KnobLine(TYMPAN_ESM_SET_COMMAND, cc - 1, kc - 1) \o Dec(100),
    << TYMPAN_ESM_SET_COMMAND, CH_A >> \o Dec(0),
    KnobLine(TYMPAN_ESM_QUERY_COMMAND, 0, 0),
    KnobLine(TYMPAN_ESM_QUERY_COMMAND, cc - 1, kc - 1),
    << TYMPAN_ESM_QUERY_COMMAND, TYMPAN_ESM_QUERY_COMMAND >>,
    << TYMPAN_ESM_APPLY_COMMAND >> \o Dec(cc - 1) \o << TYMPAN_ESM_APPLY_COMMAND >>
      \o ApplyList(0, kc),
    << TYMPAN_ESM_APPLY_COMMAND, CH_A + (kc - 1), TYMPAN_ESM_APPLY_COMMAND >>
      \o ApplyList(1, cc) }

\* The lines about the session: mode switches, help, layout, run (of the
\* registered 'd', with and without bit 7, and of bytes not registered), an
\* unknown tag, the empty line, and one activation, query-all and increment
SessionVocabulary(cc, kc) ==
  { << TYMPAN_ESM_BASIC_MODE_COMMAND >>, << TYMPAN_ESM_HELP_COMMAND >>,
    << TYMPAN_ESM_GET_LAYOUT_COMMAND >>,
    << TYMPAN_ESM_RUN_COMMAND, CH_d >>, << TYMPAN_ESM_RUN_COMMAND, CH_A >>,
    << TYMPAN_ESM_RUN_COMMAND, CH_d + 128 >>,
    << TYMPAN_ESM_RUN_COMMAND, CH_h >>, << TYMPAN_ESM_RUN_COMMAND, CH_J >>,
    << TYMPAN_ESM_RUN_COMMAND, CH_SLASH >>,
    << TYMPAN_ESM_RUN_COMMAND, TYMPAN_ESM_BASIC_MODE_COMMAND >>,
    << TYMPAN_ESM_RUN_COMMAND >>,
    << CH_A >>, << >>,
    KnobLine(TYMPAN_ESM_ACTIVATE_COMMAND, cc - 1, kc - 1),
    << TYMPAN_ESM_QUERY_COMMAND, TYMPAN_ESM_QUERY_COMMAND >>,
    KnobLine(TYMPAN_ESM_INCREMENT_COMMAND, 0, 0) }

\* The lines that name no configured knob: a channel one too high, a letter
\* one too high, no letter at all, and the slice of a channel one too
\* high; with them one increment of a configured knob
RangeVocabulary(cc, kc) ==
  { KnobLine(TYMPAN_ESM_INCREMENT_COMMAND, cc, 0),
    KnobLine(TYMPAN_ESM_DECREMENT_COMMAND, 0, kc),
    KnobLine(TYMPAN_ESM_QUERY_COMMAND, cc, 0),
    KnobLine(TYMPAN_ESM_ACTIVATE_COMMAND, cc, 0),
    << TYMPAN_ESM_SET_COMMAND >>,
    << TYMPAN_ESM_APPLY_COMMAND >> \o Dec(cc) \o << TYMPAN_ESM_APPLY_COMMAND >>
      \o ApplyList(0, kc),
    KnobLine(TYMPAN_ESM_INCREMENT_COMMAND, 0, 0) }

\* The apply commands that carry one value, of one digit and of three,
\* whatever the size of the slice: of the last channel and of the last
\* letter
ShortVocabulary(cc, kc) ==
  { << TYMPAN_ESM_APPLY_COMMAND >> \o Dec(cc - 1) \o << TYMPAN_ESM_APPLY_COMMAND >>
      \o Dec(7),
    << TYMPAN_ESM_APPLY_COMMAND >> \o Dec(cc - 1) \o << TYMPAN_ESM_APPLY_COMMAND >>
      \o Dec(777),
    << TYMPAN_ESM_APPLY_COMMAND, CH_A + (kc - 1), TYMPAN_ESM_APPLY_COMMAND >>
      \o Dec(7) }

ShortLinesOf == [cfg \in Configs |-> ShortVocabulary(cfg[1], cfg[2])]

ShortLines == ShortLinesOf[<< channelCount, knobCount >>]

RangeLinesOf == [cfg \in Configs |-> RangeVocabulary(cfg[1], cfg[2])]

RangeLines == RangeLinesOf[<< channelCount, knobCount >>]

KnobLinesOf    == [cfg \in Configs |-> KnobVocabulary(cfg[1], cfg[2])]
SessionLinesOf == [cfg \in Configs |-> SessionVocabulary(cfg[1], cfg[2])]

KnobLines    == KnobLinesOf[<< channelCount, knobCount >>]
SessionLines == SessionLinesOf[<< channelCount, knobCount >>]

\* the bytes sent in Basic mode
BasicBytes ==
  { CH_SLASH, TYMPAN_ESM_BASIC_MODE_COMMAND, CH_h, CH_J, CH_d, CH_A,
    TYMPAN_ESM_END_OF_MESSAGE }

IsPrefix(p, l) == Len(p) <= Len(l) /\ SubSeq(l, 1, Len(p)) = p

\* the bytes that may follow what was sent of the current line
NextBytes(L) ==
  { l[Len(sent) + 1] : l \in { x \in L : Len(x) > Len(sent) /\ IsPrefix(sent, x) } }

----------------------------------------------------------------------------
(* The specification *)

Init ==
  /\ \E cfg \in Configs : channelCount = cfg[1] /\ knobCount = cfg[2]
  /\ \E base \in InitBase :
       value = [idx \in 0..(KnobTotal - 1) |-> F32FromInt(base + 5 * idx)]
  /\ mode = "Basic"
  /\ buffer = << >>
  /\ bufferPtr = 0
  /\ events = << >>
  /\ ub = FALSE
  /\ lastStore = -1
  /\ overrun = FALSE
  /\ lastByte = -1
  /\ called = "none"
  /\ last = [line |-> << >>, before |-> value,
             pline |-> << >>, pbefore |-> value]
  /\ sent = << >>
  /\ nlines = 0
  /\ rx = << << >>, << >> >>
  /\ port = 0
  /\ origin = << >>
  /\ arrived = 0

SendBasic ==
  \E c \in BasicBytes :
    /\ processByteBasic(c)
    /\ UNCHANGED << channelCount, knobCount, sent, nlines >>
    /\ UNCHANGED transportVars

SendAppend(L) ==
  \E c \in NextBytes(L) :
    /\ nlines < MaxLines
    /\ processByteAppend(c)
    /\ sent' = Append(sent, c)
    /\ UNCHANGED << channelCount, knobCount, nlines >>
    /\ UNCHANGED transportVars

SendEnd(L) ==
  /\ nlines < MaxLines
  /\ sent \in L
  /\ processByteEnd(TYMPAN_ESM_END_OF_MESSAGE)
  /\ sent' = << >>
  /\ nlines' = nlines + 1
  /\ UNCHANGED << channelCount, knobCount >>
  /\ UNCHANGED transportVars

\* an interpreter sent the lines about knob values
Next == SendBasic \/ SendAppend(KnobLines) \/ SendEnd(KnobLines)

Spec == Init /\ [][Next]_vars

\* an interpreter sent the lines about the session
NextSession == SendBasic \/ SendAppend(SessionLines) \/ SendEnd(SessionLines)

SpecSession == Init /\ [][NextSession]_vars

\* an interpreter sent lines of either kind
NextAll ==
  \/ SendBasic
  \/ SendAppend(KnobLines \cup SessionLines)
  \/ SendEnd(KnobLines \cup SessionLines)

SpecAll == Init /\ [][NextAll]_vars

\* an interpreter sent lines that name no configured knob
NextRange == SendBasic \/ SendAppend(RangeLines) \/ SendEnd(RangeLines)

SpecRange == Init /\ [][NextRange]_vars

\* an interpreter sent the lines about knob values and apply commands that
\* carry one value
NextShort ==
  \/ SendBasic
  \/ SendAppend(KnobLines \cup ShortLines)
  \/ SendEnd(KnobLines \cup ShortLines)

SpecShort == Init /\ [][NextShort]_vars

\* the line of n bytes 'A', which has no command tag and no ';'
LongLine(n) == [i \in 1..n |-> CH_A]

\* the well-formed lines that may follow it
AfterLongLines ==
  { << TYMPAN_ESM_QUERY_COMMAND, TYMPAN_ESM_QUERY_COMMAND >>,
    KnobLine(TYMPAN_ESM_INCREMENT_COMMAND, 0, 0),
    << TYMPAN_ESM_HELP_COMMAND >> }

\* the host's first line is a long one: it goes on up to MaxOverrun bytes
\* past the capacity
SendAppendLong ==
  /\ nlines = 0
  /\ Len(sent) < BufferSize + MaxOverrun
  /\ sent = LongLine(Len(sent))
  /\ processByteAppend(CH_A)
  /\ sent' = Append(sent, CH_A)
  /\ UNCHANGED << channelCount, knobCount, nlines >>
  /\ UNCHANGED transportVars

\* and ends at the capacity, one byte before it or anywhere after it
SendEndLong ==
  /\ nlines = 0
  /\ Len(sent) >= BufferSize - 1
  /\ sent = LongLine(Len(sent))
  /\ processByteEnd(TYMPAN_ESM_END_OF_MESSAGE)
  /\ sent' = << >>
  /\ nlines' = nlines + 1
  /\ UNCHANGED << channelCount, knobCount >>
  /\ UNCHANGED transportVars

\* an interpreter sent a long line, then well-formed ones
NextOverflow ==
  \/ SendBasic
  \/ SendAppendLong
  \/ SendEndLong
  \/ (nlines > 0 /\ SendAppend(AfterLongLines))
  \/ (nlines > 0 /\ SendEnd(AfterLongLines))

SpecOverflow == Init /\ [][NextOverflow]_vars

----------------------------------------------------------------------------
(* The sketch: loop() reads its two transports in turn *)

\* bytes the two transports may receive
MaxArrivals == 6

\* the bytes received: the switch to Extended mode, the delimiter and a
\* byte of a line
TransportBytes == { CH_SLASH, TYMPAN_ESM_END_OF_MESSAGE, CH_A }

\* esm.reset(): the write cursor returns to the start of the buffer
reset == bufferPtr' = 0

\* the sketch constructs one interpreter of one channel
InitTransports ==
  /\ Init
  /\ channelCount = 1
  /\ knobCount = 2
  /\ value[0] = F32FromInt(50)

\* a byte arrives on transport t, whatever loop() is doing
Arrive(t) ==
  \E c \in TransportBytes :
    /\ arrived < MaxArrivals
    /\ arrived' = arrived + 1
    /\ rx' = [rx EXCEPT ![t + 1] = Append(@, c)]
    /\ UNCHANGED << channelCount, knobCount, value, mode, buffer, bufferPtr,
                    events, ub, lastStore, overrun, lastByte, called, last,
                    sent, nlines, port, origin >>

\* the offset a call of processByte stores at noted as written by transport t
originAfter(t) ==
  IF mode = "Extended"
  THEN [i \in 1..(IF bufferPtr + 1 > Len(origin)
                  THEN bufferPtr + 1 ELSE Len(origin)) |->
          IF i = bufferPtr + 1 THEN t ELSE origin[i]]
  ELSE origin

\* while (Serial.available()) esm.processByte(Serial.read()), one turn
PollByte ==
  /\ rx[port + 1] # << >>
  /\ LET c == Head(rx[port + 1])
     IN \/ processByteBasic(c)
        \/ processByteAppend(c)
        \/ processByteEnd(c)
  /\ rx' = [rx EXCEPT ![port + 1] = Tail(@)]
  /\ origin' = originAfter(port)
  /\ UNCHANGED << channelCount, knobCount, sent, nlines, port, arrived >>

\* available() is 0: the loop is left, esm.reset() is called and the other
\* transport is read
NextTransport ==
  /\ rx[port + 1] = << >>
  /\ reset
  /\ port' = 1 - port
  /\ UNCHANGED << channelCount, knobCount, value, mode, buffer, events, ub,
                  lastStore, overrun, lastByte, called, last, sent, nlines,
                  rx, origin, arrived >>

NextTransports == Arrive(0) \/ Arrive(1) \/ PollByte \/ NextTransport

SpecTransports == InitTransports /\ [][NextTransports]_vars

-----------------------------------------------------------------------------
(* Reading a dispatched line by the grammar of the protocol:               *)
(*   <tag> [channel_identifier] knob_identifier [integer]                  *)

\* the index of a knob letter, upper or lower case; -1 for any other byte
letterIndex(c) ==
  IF c >= 65 /\ c <= 90 THEN c - 65
  ELSE IF c >= 97 /\ c <= 122 THEN c - 97 ELSE -1

\* the channel a line names (0 when it names none)
lineChannel(l) == ParseInt(l, 1, 0)[2]

\* the offset of the knob letter in a line
lineLetterAt(l) == ParseInt(l, 1, 0)[1]

\* the knob a line names
lineKnob(l) == letterIndex(Peek(l, lineLetterAt(l)))

\* the row of the knob table a line names
lineIndex(l) == lineChannel(l) * knobCount + lineKnob(l)

\* the line is <tag>[channel]<knob> and the knob it names is configured
namesKnob(l, tag) ==
  /\ Len(l) >= 2
  /\ l[1] = tag
  /\ lineLetterAt(l) < Len(l)
  /\ lineKnob(l) \in 0..(knobCount - 1)
  /\ lineChannel(l) \in 0..(channelCount - 1)

\* the line is <tag>[channel]<knob> and nothing more
knobLine(l, tag) == namesKnob(l, tag) /\ Len(l) = lineLetterAt(l) + 1

\* the line is *[channel]<knob><v>, v a decimal integer
setLine(l) ==
  /\ namesKnob(l, TYMPAN_ESM_SET_COMMAND)
  /\ Len(l) > lineLetterAt(l) + 1
  /\ \A i \in (lineLetterAt(l) + 2)..Len(l) : isDigit(l[i])

\* the v of a set line
setLineValue(l) == ParseInt(l, lineLetterAt(l) + 1, 0)[2]

\* the line is &&
queryAllLine(l) == l = << TYMPAN_ESM_QUERY_COMMAND, TYMPAN_ESM_QUERY_COMMAND >>

\* the value lines among what a call printed
valueLines(ev) == SelectSeq(ev, LAMBDA e : e.t = "value")

\* what a call printed or invoked holds an event of kind t
hasEvent(ev, t) == \E i \in 1..Len(ev) : ev[i].t = t

\* the latest call handed a line to the dispatcher
dispatched == called = "end"

\* a byte that is not reserved and has no registered command
unregistered(c) ==
  /\ c \notin { CH_SLASH, TYMPAN_ESM_BASIC_MODE_COMMAND, CH_h, CH_J }
  /\ ~commandLut(Mask7(c))

-----------------------------------------------------------------------------
(* C1, C2: the line buffer at its capacity (SpecOverflow)                   *)

\* C1: in Extended mode no byte and no line terminator is ever stored at an
\* offset of 256 or more, whatever bytes arrive and however many of them
\* arrive before a ';'.
C1_StoresStayInBuffer == lastStore < BufferSize

\* C2: when a line goes past the capacity of the buffer with no ';' in it,
\* the overflow is reported (by the call given the byte that fills the
\* buffer or by the call given the first byte that does not fit) and the
\* cursor is reset to the start of the buffer, so that it holds at most the
\* one byte stored since.
C2_OverflowReportedAndReset ==
  [][ (called' = "append" /\ Len(sent') = BufferSize + 1)
        => /\ (events # << >> \/ events' # << >>)
           /\ bufferPtr' <= 1 ]_vars

-----------------------------------------------------------------------------
(* C3 .. C8: the knob commands (Spec)                                       *)

\* min + (max - min) * v / 100, clamped to [min, max]
percentOfRange(k, v) ==
  LET raw == F32Add(k.min, F32Div(F32Mul(F32Sub(k.max, k.min), F32FromInt(v)),
                                  F32_100))
  IN  IF F32Lt(raw, k.min) THEN k.min
      ELSE IF F32Gt(raw, k.max) THEN k.max ELSE raw

\* C3: a set command '*[channel]<knob><v>;' for a configured knob leaves the
\* knob's stored value at min + (max - min) * v / 100 clamped to [min, max]
\* (v = 0 gives min, v = 100 gives max, '*0A50;' on a knob of range 0..100
\* gives 50).
C3_SetStoresPercentage ==
  (dispatched /\ setLine(last.line))
    => value[lineIndex(last.line)]
         = percentOfRange(knobs(lineIndex(last.line)), setLineValue(last.line))

\* the value line e carries the label of knob k of channel c
labelledFor(e, c, k) == e.a = 65 + k /\ e.b = c

\* C4: every value line printed for a configured knob (channel c, knob k), by
\* a query, a query of all knobs, an increment, a decrement or a set, is
\* labelled with the letter 'A' + k and the channel c.
C4_ValueLinesLabelled ==
  dispatched =>
    LET l  == last.line
        vl == valueLines(events)
    IN /\ queryAllLine(l) =>
            \A i \in 1..Len(vl) :
               i <= KnobTotal =>
                 labelledFor(vl[i], (i - 1) \div knobCount, (i - 1) % knobCount)
       /\ ( \/ knobLine(l, TYMPAN_ESM_QUERY_COMMAND)
            \/ knobLine(l, TYMPAN_ESM_INCREMENT_COMMAND)
            \/ knobLine(l, TYMPAN_ESM_DECREMENT_COMMAND)
            \/ setLine(l) ) =>
            \A i \in 1..Len(vl) :
               labelledFor(vl[i], lineChannel(l), lineKnob(l))

\* C5: the query of all knobs '&&;' prints exactly channelCount * knobCount
\* value lines, one per knob in channel-major order (the knobs of channel 0
\* by ascending letter, then those of channel 1, ...), each carrying the
\* value the knob holds.
C5_QueryAllVisitsEveryKnob ==
  (dispatched /\ queryAllLine(last.line)) =>
    LET vl == valueLines(events)
    IN /\ Len(vl) = channelCount * knobCount
       /\ \A i \in 1..Len(vl) : vl[i].v = value[i - 1]
       /\ value = last.before

\* '&&;' was dispatched to two channels of two knobs holding four different
\* values
C5_Witness ==
  /\ dispatched /\ queryAllLine(last.line)
  /\ channelCount = 2 /\ knobCount = 2
  /\ Len(valueLines(events)) = 4
  /\ \A i, j \in 0..3 : i # j => value[i] # value[j]

\* C6: an increment of a configured knob leaves its value at most max and a
\* decrement leaves it at least min, after any commands before it, so that
\* repeated increments never exceed max and repeated decrements never go
\* below min.
C6_IncDecStayInRange ==
  dispatched =>
    LET l == last.line
    IN /\ knobLine(l, TYMPAN_ESM_INCREMENT_COMMAND) =>
            F32Le(value[lineIndex(l)], knobs(lineIndex(l)).max)
       /\ knobLine(l, TYMPAN_ESM_DECREMENT_COMMAND) =>
            F32Le(knobs(lineIndex(l)).min, value[lineIndex(l)])

\* an increment was dispatched to a knob that was in its range, and the sum
\* went over max
C6_Witness ==
  /\ dispatched
  /\ knobLine(last.line, TYMPAN_ESM_INCREMENT_COMMAND)
  /\ LET i == lineIndex(last.line)
     IN /\ F32Le(knobs(i).min, last.before[i])
        /\ F32Le(last.before[i], knobs(i).max)
        /\ F32Gt(incrementTarget(knobs(i), last.before[i]), knobs(i).max)
        /\ value[i] = knobs(i).max

\* |x|
magnitude(x) == [x EXCEPT !.s = 0]

\* the larger of |min| and |max|, times 2^-22: above the rounding errors of
\* the sum and the difference, of values between min and max, together
roundingTolerance(k) ==
  LET a == magnitude(k.min)
      b == magnitude(k.max)
  IN  F32Div(IF F32Lt(a, b) THEN b ELSE a, F32FromInt(Pow2(22)))

\* an increment then a decrement of the same configured knob were
\* dispatched, one right after the other, and the sum v + 0.05 * (max - min)
\* was at most max
incrementThenDecrement ==
  /\ dispatched
  /\ knobLine(last.line, TYMPAN_ESM_DECREMENT_COMMAND)
  /\ knobLine(last.pline, TYMPAN_ESM_INCREMENT_COMMAND)
  /\ lineIndex(last.line) = lineIndex(last.pline)
  /\ LET i == lineIndex(last.line)
     IN F32Le(incrementTarget(knobs(i), last.pbefore[i]), knobs(i).max)

C8_QueryChangesNothing ==
  (dispatched /\ knobLine(last.line, TYMPAN_ESM_QUERY_COMMAND)) =>
    /\ Len(valueLines(events)) = 1
    /\ valueLines(events)[1].v = last.before[lineIndex(last.line)]
    /\ value = last.before
    /\ mode = "Extended"
    /\ ~hasEvent(events, "apply")

\* a query of the last knob of the second channel was dispatched twice in a
\* row, after which the knob holds what it held
C8_Witness ==
  /\ dispatched
  /\ knobLine(last.line, TYMPAN_ESM_QUERY_COMMAND)
  /\ last.pline = last.line
  /\ lineChannel(last.line) = 1
  /\ valueLines(events)[1].v = last.pbefore[lineIndex(last.line)]

-----------------------------------------------------------------------------
(* C9, C10: what is not a command (SpecSession)                             *)

\* the bytes that begin a command of the extended protocol
commandTags ==
  { TYMPAN_ESM_BASIC_MODE_COMMAND, TYMPAN_ESM_HELP_COMMAND,
    TYMPAN_ESM_GET_LAYOUT_COMMAND, TYMPAN_ESM_RUN_COMMAND,
    TYMPAN_ESM_ACTIVATE_COMMAND, TYMPAN_ESM_QUERY_COMMAND,
    TYMPAN_ESM_INCREMENT_COMMAND, TYMPAN_ESM_DECREMENT_COMMAND,
    TYMPAN_ESM_SET_COMMAND, TYMPAN_ESM_APPLY_COMMAND }

\* the line begins with no command tag (the empty line does)
unrecognized(l) == Len(l) = 0 \/ l[1] \notin commandTags

\* C9: in Extended mode a line whose first character is no command tag (the
\* empty line too) is answered with ACK=0 and nothing else happens: the
\* mode stays Extended, no knob value changes, neither apply() nor
\* activate() nor a command executor is invoked, and the cursor is back at
\* the start of the buffer for the next line.
C9_UnrecognizedLineIsolated ==
  (dispatched /\ unrecognized(last.line)) =>
    /\ hasEvent(events, "ack")
    /\ \A i \in 1..Len(events) :
         events[i].t \in {"msg", "ack"} /\ (events[i].t = "ack" => events[i].a = 0)
    /\ mode = "Extended"
    /\ value = last.before
    /\ bufferPtr = 0

\* a line with no command tag was dispatched, then the empty line
C9_Witness ==
  /\ dispatched
  /\ last.line = << >>
  /\ last.pline = << CH_A >>
  /\ nlines = 2

\* C10, as stated: in Basic mode a byte that is not reserved and has no
\* registered command is answered with ACK=0.
C10_BasicUnregisteredAcksZero ==
  (called = "basic" /\ unregistered(lastByte)) =>
    \E i \in 1..Len(events) : events[i] = EvAck(FALSE)

\* C10, amended: in Basic mode a byte that is not reserved and has no
\* registered command gets no response at all and changes nothing; the
\* same byte sent in Extended mode as the run command '!<c>;' is answered
\* with ACK=0.
C10_BasicUnregisteredSilent ==
  /\ (called = "basic" /\ unregistered(lastByte)) =>
       events = << >> /\ mode = "Basic"
  /\ ( /\ dispatched
       /\ Len(last.line) = 2
       /\ last.line[1] = TYMPAN_ESM_RUN_COMMAND
       /\ unregistered(last.line[2]) ) =>
       events = << EvAck(FALSE) >> /\ mode = "Extended"

\* the byte 'A', which nothing registers, was sent in Basic mode after it had
\* been sent in Extended mode as '!A;'
C10_Witness ==
  /\ called = "basic"
  /\ lastByte = CH_A
  /\ last.pline = << TYMPAN_ESM_RUN_COMMAND, CH_A >>
  /\ last.line = << TYMPAN_ESM_BASIC_MODE_COMMAND >>

-----------------------------------------------------------------------------
(* C11 .. C14: acknowledgements and the mode (SpecSession)                  *)

\* the characters handleRunCommand reserves
reservedChars == { CH_SLASH, TYMPAN_ESM_BASIC_MODE_COMMAND, CH_h, CH_J }

\* C11: in Basic mode a byte dispatched as a run command (a registered
\* trigger, an unregistered one, 'h' or 'J') gets no acknowledgement,
\* neither ACK=1 nor ACK=0: run commands are acknowledged in Extended mode
\* only.
C11_BasicRunIsNotAcknowledged ==
  (called = "basic"
     /\ lastByte \notin { CH_SLASH, TYMPAN_ESM_BASIC_MODE_COMMAND })
    => ~hasEvent(events, "ack")

\* the registered 'd' was run in Basic mode after it had been run, and
\* acknowledged, in Extended mode
C11_Witness ==
  /\ called = "basic"
  /\ lastByte = CH_d
  /\ hasEvent(events, "exec")
  /\ last.pline = << TYMPAN_ESM_RUN_COMMAND, CH_d >>
  /\ last.line = << TYMPAN_ESM_BASIC_MODE_COMMAND >>

\* the events of kind t among what a call printed or invoked
eventsOf(ev, t) == SelectSeq(ev, LAMBDA e : e.t = t)

\* C12: in Extended mode the run command '!<c>;' of a character c that is
\* not reserved is answered with exactly one acknowledgement, ACK=1 if and
\* only if a command is registered for c & 0x7f and its executor returns
\* true, else ACK=0; the executor is invoked once when there is one, and
\* none is invoked when there is none.
C12_RunAcknowledgesTheExecutor ==
  ( /\ dispatched
    /\ Len(last.line) = 2
    /\ last.line[1] = TYMPAN_ESM_RUN_COMMAND
    /\ last.line[2] \notin reservedChars ) =>
    LET c     == last.line[2]
        reg   == \E ii \in 1..Len(commands) :
                   commands[ii].character % 128 = c % 128
        acks  == eventsOf(events, "ack")
        execs == eventsOf(events, "exec")
    IN /\ Len(acks) = 1
       /\ Len(execs) = (IF reg THEN 1 ELSE 0)
       /\ reg => execs[1].a = c
       /\ acks[1].a = 1 <=> (reg /\ execs[1].b = 1)

\* 'd' with bit 7 set was run in Extended mode, the executor of 'd' returned
\* true, and before that a byte that nothing registers was run
C12_Witness ==
  /\ dispatched
  /\ last.line = << TYMPAN_ESM_RUN_COMMAND, CH_d + 128 >>
  /\ events = << EvExec(CH_d + 128, TRUE), EvAck(TRUE) >>
  /\ last.pline = << TYMPAN_ESM_RUN_COMMAND, CH_A >>

\* the command just dispatched is the token c of a mode switch: the byte c
\* in Basic mode, or in Extended mode the line '!<c>...;' (and, for the
\* token '\', a line that begins with it)
modeToken(c) ==
  \/ called' = "basic" /\ lastByte' = c
  \/ /\ called' = "end"
     /\ Peek(last'.line, 0) = TYMPAN_ESM_RUN_COMMAND
     /\ Peek(last'.line, 1) = c
  \/ /\ called' = "end"
     /\ c = TYMPAN_ESM_BASIC_MODE_COMMAND
     /\ Peek(last'.line, 0) = c

\* C13: the mode is Basic at first and changes only when the command
\* dispatched is a mode token: to Extended only on '/', to Basic only on
\* '\'; every other command leaves it as it is.
C13_ModeChangesOnTokensOnly ==
  /\ mode = "Basic"
  /\ [][ /\ (mode' # mode /\ mode' = "Extended") => modeToken(CH_SLASH)
         /\ (mode' # mode /\ mode' = "Basic") =>
              modeToken(TYMPAN_ESM_BASIC_MODE_COMMAND) ]_vars

\* the mode went to Extended on '/', to Basic on the line '\', to Extended on
\* '/' again, and the help line left it there
C13_Witness ==
  /\ dispatched
  /\ last.line = << TYMPAN_ESM_HELP_COMMAND >>
  /\ last.pline = << TYMPAN_ESM_BASIC_MODE_COMMAND >>
  /\ mode = "Extended"

-----------------------------------------------------------------------------
(* C15: the apply() callback (SpecAll)                                      *)

\* the tags of the commands that write knob values
mutatingTags ==
  { TYMPAN_ESM_INCREMENT_COMMAND, TYMPAN_ESM_DECREMENT_COMMAND,
    TYMPAN_ESM_SET_COMMAND, TYMPAN_ESM_APPLY_COMMAND }

\* C15: every dispatched increment, decrement, set and apply command invokes
\* apply() exactly once, as its last step, after the values have been
\* written and after its value lines, which show the written values, have
\* been printed; no other command (help, get-layout, run, activate, query,
\* query of all, mode switch, unrecognized tag) invokes apply().
C15_ApplyConcludesMutations ==
  LET l  == last.line
      vl == valueLines(events)
  IN IF dispatched /\ Peek(l, 0) \in mutatingTags
     THEN /\ Len(eventsOf(events, "apply")) = 1
          /\ events[Len(events)] = EvApply
          /\ Len(vl) >= 1
          /\ Peek(l, 0) = TYMPAN_ESM_APPLY_COMMAND =>
               \A i \in 1..Len(vl) : vl[i].v = value[i - 1]
          /\ Peek(l, 0) # TYMPAN_ESM_APPLY_COMMAND =>
               \A i \in 1..Len(vl) : vl[i].v = value[lineIndex(l)]
     ELSE ~hasEvent(events, "apply")

\* a decrement that changed its knob was dispatched after a line that is not
\* a command
C15_Witness ==
  /\ dispatched
  /\ knobLine(last.line, TYMPAN_ESM_DECREMENT_COMMAND)
  /\ value[lineIndex(last.line)] # last.before[lineIndex(last.line)]
  /\ events[Len(events)] = EvApply
  /\ last.pline = << CH_A >>

-----------------------------------------------------------------------------
(* C16: commands that name no configured knob (SpecRange)                   *)

\* the line is a command on one knob, or on the slice of a channel, whose
\* channel is channelCount or more or whose knob is not one of
\* 0 .. knobCount - 1 (no letter gives the knob -1)
outOfRange(l) ==
  \/ /\ Peek(l, 0) \in { TYMPAN_ESM_ACTIVATE_COMMAND, TYMPAN_ESM_QUERY_COMMAND,
                         TYMPAN_ESM_INCREMENT_COMMAND,
                         TYMPAN_ESM_DECREMENT_COMMAND, TYMPAN_ESM_SET_COMMAND }
     /\ ~queryAllLine(l)
     /\ \/ lineChannel(l) >= channelCount
        \/ lineKnob(l) \notin 0..(knobCount - 1)
  \/ /\ Peek(l, 0) = TYMPAN_ESM_APPLY_COMMAND
     /\ Peek(l, lineLetterAt(l)) = TYMPAN_ESM_APPLY_COMMAND
     /\ lineChannel(l) >= channelCount

\* C16: a command whose channel is channelCount or more, or whose knob is
\* outside 0 .. knobCount - 1, fails with an error: it is answered with
\* ACK=0, no slot outside the knob table is read or written, and no knob
\* value changes.
C16_OutOfRangeIsRefused ==
  (dispatched /\ outOfRange(last.line)) =>
    /\ ~ub
    /\ value = last.before
    /\ \E i \in 1..Len(events) : events[i] = EvAck(FALSE)

-----------------------------------------------------------------------------
(* C17: the apply command (Spec)                                            *)

\* the line is '=<channel>=...' for a configured channel
channelSlice(l) ==
  /\ Peek(l, 0) = TYMPAN_ESM_APPLY_COMMAND
  /\ lineLetterAt(l) > 1
  /\ Peek(l, lineLetterAt(l)) = TYMPAN_ESM_APPLY_COMMAND
  /\ lineChannel(l) < channelCount

\* the line is '=<letter>=...' for a configured knob
letterSlice(l) ==
  /\ Peek(l, 0) = TYMPAN_ESM_APPLY_COMMAND
  /\ letterIndex(Peek(l, 1)) \in 0..(knobCount - 1)
  /\ Peek(l, 2) = TYMPAN_ESM_APPLY_COMMAND

\* the offset of the first value of an apply line
valuesAt(l) == IF channelSlice(l) THEN lineLetterAt(l) + 1 ELSE 3

\* the offsets of the commas of a line, in order
commasOf(l) ==
  SelectSeq([i \in 1..Len(l) |-> i - 1], LAMBDA j : Peek(l, j) = CH_COMMA)

\* the number of values an apply line carries
valueCount(l) == Len(commasOf(l)) + 1

\* the i-th value of an apply line, i from 0: the float its text denotes
valueOf(l, i) ==
  strtof(l, IF i = 0 THEN valuesAt(l) ELSE commasOf(l)[i] + 1)[1]

\* C17: an apply command that carries as many values as its slice has knobs
\* stores them as they are, unclamped: '=<channel>=v0,...;' leaves knob i of
\* the channel at vi, '=<letter>=v0,...;' leaves that knob of channel i at
\* vi, also when vi is outside [min, max], and no other knob changes; the
\* command then prints what the query of all knobs prints.
C17_ApplyStoresVerbatim ==
  LET l  == last.line
      vl == valueLines(events)
      written ==
        IF channelSlice(l)
        THEN [i \in 0..(knobCount - 1) |-> lineChannel(l) * knobCount + i]
        ELSE [i \in 0..(channelCount - 1) |->
                i * knobCount + letterIndex(Peek(l, 1))]
  IN ( /\ dispatched
       /\ \/ channelSlice(l) /\ valueCount(l) = knobCount
          \/ letterSlice(l) /\ valueCount(l) = channelCount ) =>
       /\ \A i \in DOMAIN written : value[written[i]] = valueOf(l, i)
       /\ \A idx \in DOMAIN value :
            (\A i \in DOMAIN written : written[i] # idx) =>
              value[idx] = last.before[idx]
       /\ Len(vl) = channelCount * knobCount
       /\ \A i \in 1..Len(vl) : vl[i].v = value[i - 1]

\* the slice of the second channel of two knobs was applied with 150 and
\* -10, both outside the ranges
C17_Witness ==
  /\ dispatched
  /\ channelSlice(last.line)
  /\ channelCount = 2 /\ knobCount = 2
  /\ valueCount(last.line) = 2
  /\ value[2] = F32FromInt(150)
  /\ value[3] = F32Neg(F32FromInt(10))
  /\ value[0] = last.before[0]

-----------------------------------------------------------------------------
(* C18: two transports, one interpreter (SpecTransports)                    *)

\* the transports that stored the bytes of the latest line dispatched
lineOrigins == { origin[i] : i \in 1..Len(last.line) }

\* C18: with the cursor reset between the transports, a line handed to the
\* dispatcher holds the bytes of one transport only, however the arrivals
\* on the two transports interleave.
C18_LinesAreOfOneTransport ==
  called = "end" => \E t \in { 0, 1 } : lineOrigins \subseteq { t }

\* a line of transport 1 was dispatched while the buffer still held, past
\* the end of that line, a byte of an unfinished line of transport 0
C18_Witness ==
  /\ called = "end"
  /\ port = 1
  /\ last.line = << CH_A >>
  /\ origin = << 1, 1, 0 >>
  /\ buffer = << CH_A, CH_NUL, CH_A >>

-----------------------------------------------------------------------------
(* C19: what a byte does in Extended mode (SpecOverflow)                    *)

\* C19: in Extended mode a byte other than ';' is appended to the buffer and
\* nothing else happens: nothing is printed or called, the mode and the
\* cells stay as they are, and the buffer holds the bytes received since the
\* previous ';' with the cursor after them; a ';' hands exactly those bytes
\* to the dispatcher, once, and leaves the cursor at the start of the
\* buffer.
C19_BytesAppendLinesDispatch ==
  [][ /\ called' = "append" =>
           /\ events' = << >>
           /\ value' = value
           /\ mode' = mode
           /\ ub' = ub
           /\ lastStore' = Len(sent)
           /\ lastStore' < BufferSize
           /\ bufferPtr' = Len(sent')
           /\ SubSeq(buffer', 1, bufferPtr') = sent'
      /\ called' = "end" =>
           /\ last'.line = sent
           /\ nlines' = nlines + 1
           /\ bufferPtr' = 0 ]_vars

-----------------------------------------------------------------------------
(* C20: the cells stay within their ranges (SpecAll)                        *)

\* every cell is within [min, max] of its row
withinRanges(val) ==
  \A idx \in DOMAIN val :
    /\ F32Le(knobs(idx).min, val[idx])
    /\ F32Le(val[idx], knobs(idx).max)

\* C20: when every cell is within its range, it still is after any byte and
\* any line that is not an apply command and that makes no handler address
\* a knob outside the table; so cells that start within their ranges stay
\* there through any sequence of such commands.
C20_RangesArePreserved ==
  [][ ( /\ withinRanges(value)
        /\ ~ub'
        /\ ~ (called' = "end"
              /\ Peek(last'.line, 0) = TYMPAN_ESM_APPLY_COMMAND) )
      => withinRanges(value') ]_vars

\* knob A of channel 0, with every cell within its range, was set to its
\* minimum and then decremented, and is still at its minimum
C20_Witness ==
  /\ dispatched
  /\ ~ub
  /\ nlines = 2
  /\ Peek(last.pline, 0) = TYMPAN_ESM_SET_COMMAND
  /\ last.line = KnobLine(TYMPAN_ESM_DECREMENT_COMMAND, 0, 0)
  /\ withinRanges(last.pbefore)
  /\ last.pbefore[0] # options[1].min
  /\ last.before[0] = options[1].min
  /\ value[0] = options[1].min

-----------------------------------------------------------------------------
(* C21, C22: what the knob commands leave alone (SpecShort)                 *)

\* the cells of the slice of an apply line, in the order of its values
sliceCells(l) ==
  IF channelSlice(l)
  THEN [i \in 0..(knobCount - 1) |-> lineChannel(l) * knobCount + i]
  ELSE [i \in 0..(channelCount - 1) |->
          i * knobCount + letterIndex(Peek(l, 1))]

\* an apply line of a configured slice with fewer values than the slice has
\* knobs
shortApply(l) ==
  \/ channelSlice(l) /\ valueCount(l) < knobCount
  \/ letterSlice(l) /\ valueCount(l) < channelCount

\* C21: an apply command with fewer values than its slice has knobs reads
\* nothing past the end of its line: the knobs it has values for take them
\* and the other knobs of the slice keep the values they had, whatever bytes
\* earlier lines left in the buffer.
C21_ShortApplyKeepsTheRest ==
  (dispatched /\ shortApply(last.line)) =>
    \A i \in DOMAIN sliceCells(last.line) :
      value[sliceCells(last.line)[i]] =
        IF i < valueCount(last.line)
        THEN valueOf(last.line, i)
        ELSE last.before[sliceCells(last.line)[i]]

\* the line is an increment, decrement or set command of a configured knob
storesOneKnob(l) ==
  \E tag \in { TYMPAN_ESM_INCREMENT_COMMAND, TYMPAN_ESM_DECREMENT_COMMAND,
               TYMPAN_ESM_SET_COMMAND } : namesKnob(l, tag)

\* the cells a command of a configured knob or slice may store into
targetCells(l) ==
  IF storesOneKnob(l) THEN { lineIndex(l) }
  ELSE { sliceCells(l)[i] : i \in DOMAIN sliceCells(l) }

\* C22: an increment, decrement or set command of a configured knob changes
\* the cell of that knob only, and an apply command of a configured channel
\* or letter changes the cells of its slice only; every other cell and the
\* mode are left as they were.
C22_OnlyTheTargetChanges ==
  ( /\ dispatched
    /\ \/ storesOneKnob(last.line)
       \/ channelSlice(last.line)
       \/ letterSlice(last.line) ) =>
    /\ mode = "Extended"
    /\ \A idx \in DOMAIN value :
         idx \notin targetCells(last.line) => value[idx] = last.before[idx]

\* knob B of channel 1 was incremented, then the slice of letter B of two
\* channels was applied: the two cells of B changed, those of A did not
C22_Witness ==
  /\ dispatched
  /\ channelCount = 2 /\ knobCount = 2
  /\ last.pline = KnobLine(TYMPAN_ESM_INCREMENT_COMMAND, 1, 1)
  /\ last.before[3] # last.pbefore[3]
  /\ \A idx \in 0..2 : last.before[idx] = last.pbefore[idx]
  /\ letterSlice(last.line)
  /\ valueCount(last.line) = 2
  /\ value[1] # last.before[1] /\ value[3] # last.before[3]
  /\ value[0] = last.before[0] /\ value[2] = last.before[2]

-----------------------------------------------------------------------------
(* C23: the cursor in Basic mode (SpecSession)                              *)

\* C23: whenever the mode is Basic the cursor is at the start of the
\* buffer, so a line dispatched in Extended mode is the bytes sent in that
\* session since its previous ';' and begins with nothing left over from an
\* earlier session.
C23_BasicModeCursorAtStart ==
  /\ [](mode = "Basic" => bufferPtr = 0)
  /\ [][called' = "end" => last'.line = sent]_vars

\* a session was left with the line '\', a second one entered, and its
\* first line, a run of the registered command, dispatched
C23_Witness ==
  /\ dispatched
  /\ nlines = 2
  /\ last.pline = << TYMPAN_ESM_BASIC_MODE_COMMAND >>
  /\ last.line = << TYMPAN_ESM_RUN_COMMAND, CH_d >>
  /\ mode = "Extended"
  /\ bufferPtr = 0

====
